---- MODULE Spec2Model ----
(***************************************************************************)
(* Model of the PDF field-extraction pipeline of preparation/pdf_parse.py  *)
(* (text acquisition with OCR fallback, the two stimulation strategies,    *)
(* the merge, the hand-over to persistence, the coordinates of             *)
(* parse_well_info) and of clean_text, split_proppant_details and          *)
(* process_block_stats of preparation/data.preprocessing.py.               *)
(*                                                                         *)
(* Text is modelled as a sequence of tokens.  A token is a maximal run of  *)
(* non-whitespace characters, or one of the two whitespace tokens NL (a    *)
(* line break) and WIDE (a run of three blanks).  Two adjacent             *)
(* non-whitespace tokens are separated by exactly one blank.               *)
(***************************************************************************)
EXTENDS Integers, Sequences, FiniteSets, TLC

\* ------------------------------------------------------------------------
\* Bounds of the model
\* ------------------------------------------------------------------------
MaxFiles == 2
MaxPages == 2
MaxStrLen == 4
MaxLines == 3
MaxEntries == 2
MaxBlocks == 3

\* Python's None.  No token and no extracted string equals it.
None == "<None>"

\* ------------------------------------------------------------------------
\* Tokens and their lexical classes
\* ------------------------------------------------------------------------
NL == "\n"
WIDE == "   "

IsSpace(t) == t \in {NL, WIDE}

\* tokens matching \d+ in full
DigitTokens == {"8000", "9000", "30", "5000", "50000"}

\* tokens matching \d{2}/\d{2}/\d{4} in full, with their digit groups
DateTokens == {"04/01/2023", "04/02/2023", "13/45/2023"}

DateParts(t) ==
    CASE t = "04/01/2023" -> [mm |-> 4, dd |-> 1, yyyy |-> 2023]
      [] t = "04/02/2023" -> [mm |-> 4, dd |-> 2, yyyy |-> 2023]
      [] t = "13/45/2023" -> [mm |-> 13, dd |-> 45, yyyy |-> 2023]

\* the separator glyphs [|I]
SepTokens == {"|", "I"}

\* the longest prefix of a token matching \w+ ("" when there is none)
WordPrefix(t) ==
    CASE t = "Sand:" -> "Sand"
      [] t = "4.5" -> "4"
      [] t \in {"04/01/2023", "04/02/2023"} -> "04"
      [] t = "13/45/2023" -> "13"
      [] t = "|" -> ""
      [] IsSpace(t) -> ""
      [] OTHER -> t

\* the longest prefix of a token matching [\d.]+ ("" when there is none)
DecimalPrefix(t) ==
    CASE t \in DigitTokens -> t
      [] t = "4.5" -> "4.5"
      [] t \in {"04/01/2023", "04/02/2023"} -> "04"
      [] t = "13/45/2023" -> "13"
      [] OTHER -> ""

\* ------------------------------------------------------------------------
\* Strings of tokens: str.strip, len, str.splitlines, "\n".join
\* ------------------------------------------------------------------------
\* text.strip(): the text without its leading and trailing whitespace
Strip(s) ==
    LET solid == {i \in 1..Len(s) : ~IsSpace(s[i])} IN
    IF solid = {} THEN <<>>
    ELSE SubSeq(s, CHOOSE i \in solid : \A j \in solid : i <= j,
                   CHOOSE i \in solid : \A j \in solid : i >= j)

\* the blank that separates tokens i and i+1, if both are non-whitespace
Gap(s, i) == IF i < Len(s) /\ ~IsSpace(s[i]) /\ ~IsSpace(s[i + 1]) THEN " " ELSE ""

\* the characters of tokens i.. of a token string, as one string
RECURSIVE RawFrom(_, _)
RawFrom(s, i) ==
    IF i > Len(s) THEN "" ELSE s[i] \o Gap(s, i) \o RawFrom(s, i + 1)

Raw(s) == RawFrom(s, 1)

\* len(text): the number of characters of tokens i.. of a token string
RECURSIVE CharLenFrom(_, _)
CharLenFrom(s, i) ==
    IF i > Len(s) THEN 0 ELSE Len(s[i]) + Len(Gap(s, i)) + CharLenFrom(s, i + 1)

CharLen(s) == CharLenFrom(s, 1)

\* text.splitlines(): the lines of a text, without their line breaks; a
\* final line break opens no further line
splitlines(text) ==
    LET brk == SelectSeq([i \in 1..Len(text) |-> i], LAMBDA i : text[i] = NL)
        last == IF brk = <<>> THEN 0 ELSE brk[Len(brk)]
        n == Len(brk) + (IF last < Len(text) THEN 1 ELSE 0)
    IN  [j \in 1..n |->
            SubSeq(text, IF j = 1 THEN 1 ELSE brk[j - 1] + 1,
                         IF j <= Len(brk) THEN brk[j] - 1 ELSE Len(text))]

\* "\n".join(lines) for lines given as strings
RECURSIVE JoinNL(_)
JoinNL(ls) ==
    IF ls = <<>> THEN ""
    ELSE IF Len(ls) = 1 THEN ls[1]
    ELSE ls[1] \o "\n" \o JoinNL(Tail(ls))

\* ------------------------------------------------------------------------
\* Dates: datetime.strptime(raw, "%m/%d/%Y") and strftime("%Y-%m-%d")
\* ------------------------------------------------------------------------
IsLeap(y) == (y % 4 = 0 /\ y % 100 # 0) \/ y % 400 = 0

DaysIn(m, y) ==
    IF m = 2 THEN (IF IsLeap(y) THEN 29 ELSE 28)
    ELSE IF m \in {4, 6, 9, 11} THEN 30 ELSE 31

\* strptime raises ValueError unless the digits name a calendar day
strptime_ok(raw) ==
    LET p == DateParts(raw) IN
        /\ p.yyyy >= 1
        /\ p.mm \in 1..12
        /\ p.dd >= 1 /\ p.dd <= DaysIn(p.mm, p.yyyy)

Pad2(n) == IF n < 10 THEN "0" \o ToString(n) ELSE ToString(n)

strftime(raw) ==
    LET p == DateParts(raw) IN
        ToString(p.yyyy) \o "-" \o Pad2(p.mm) \o "-" \o Pad2(p.dd)

\* lines 250-255 and 314-319: the try/except around the date conversion
ParseDate(raw) == IF strptime_ok(raw) THEN strftime(raw) ELSE None

\* ------------------------------------------------------------------------
\* The regular expressions of the two strategies, on one stripped line
\* ------------------------------------------------------------------------
NoMatch == [ok |-> FALSE]

\* positions of the non-whitespace tokens of a line
Pos(line) == SelectSeq([i \in 1..Len(line) |-> i], LAMBDA i : ~IsSpace(line[i]))

\* the whitespace run after the first token is at least three blanks wide
WideAfterFirst(line) == Len(line) >= 2 /\ line[2] = WIDE

\* the text of tokens a..b of the line, as (.+?) captures it
Capture(line, a, b) == Raw(SubSeq(line, a, b))

\* (?=\s+\d{4,})\s+(\d+)\s+(\d+)\s+(\d+)\s*[|I]\s+(\d+)\s+(\w+), from token n on
TailDoc1(line, P, n) ==
    /\ n + 5 <= Len(P)
    /\ line[P[n]] \in DigitTokens /\ Len(line[P[n]]) >= 4
    /\ line[P[n + 1]] \in DigitTokens
    /\ line[P[n + 2]] \in DigitTokens
    /\ line[P[n + 3]] \in SepTokens
    /\ line[P[n + 4]] \in DigitTokens
    /\ WordPrefix(line[P[n + 5]]) # ""

GroupsDoc1(line, P, n, formation) ==
    [ok |-> TRUE, g1 |-> line[P[1]], g2 |-> formation,
     g3 |-> line[P[n]], g4 |-> line[P[n + 1]], g5 |-> line[P[n + 2]],
     g6 |-> line[P[n + 4]], g7 |-> WordPrefix(line[P[n + 5]])]

\* re.match of the doc1 pattern (line 246): the lazy (.+?) takes the fewest
\* tokens that let the rest match; failing that, a blank of a wide gap
regex_doc1(line) ==
    LET P == Pos(line)
        K == {k \in 2..Len(P) : TailDoc1(line, P, k + 1)}
    IN  IF P = <<>> \/ line[1] \notin DateTokens THEN NoMatch
        ELSE IF K # {} THEN
            LET k == CHOOSE k \in K : \A j \in K : k <= j
            IN  GroupsDoc1(line, P, k + 1, Capture(line, P[2], P[k]))
        ELSE IF WideAfterFirst(line) /\ TailDoc1(line, P, 2) THEN
            GroupsDoc1(line, P, 2, " ")
        ELSE NoMatch

\* \s+(\d+)\s+(\d+)(?:\s*[|I]\s*|\s+)(\d+)\s+(\d+)\s+(\w+), from token n on;
\* s is 1 when a separator glyph stands after the second number, else 0
TailDoc2(line, P, n, s) ==
    /\ n + 4 + s <= Len(P)
    /\ line[P[n]] \in DigitTokens
    /\ line[P[n + 1]] \in DigitTokens
    /\ s = 1 => line[P[n + 2]] \in SepTokens
    /\ line[P[n + 2 + s]] \in DigitTokens
    /\ line[P[n + 3 + s]] \in DigitTokens
    /\ WordPrefix(line[P[n + 4 + s]]) # ""

GroupsDoc2(line, P, n, formation) ==
    LET s == IF TailDoc2(line, P, n, 1) THEN 1 ELSE 0 IN
    [ok |-> TRUE, g1 |-> line[P[1]], g2 |-> formation,
     g3 |-> line[P[n]], g4 |-> line[P[n + 1]], g5 |-> line[P[n + 2 + s]],
     g6 |-> line[P[n + 3 + s]], g7 |-> WordPrefix(line[P[n + 4 + s]])]

\* re.match of the doc2 pattern (line 310)
regex_doc2(line) ==
    LET P == Pos(line)
        T(n) == TailDoc2(line, P, n, 1) \/ TailDoc2(line, P, n, 0)
        K == {k \in 2..Len(P) : T(k + 1)}
    IN  IF P = <<>> \/ line[1] \notin DateTokens THEN NoMatch
        ELSE IF K # {} THEN
            LET k == CHOOSE k \in K : \A j \in K : k <= j
            IN  GroupsDoc2(line, P, k + 1, Capture(line, P[2], P[k]))
        ELSE IF WideAfterFirst(line) /\ T(2) THEN
            GroupsDoc2(line, P, 2, " ")
        ELSE NoMatch

\* (\d+)\s+(\d+)\s+([\d.]+) after the lazy (.+?)\s+, from token n on
TailTreatment(line, P, n) ==
    /\ n + 2 <= Len(P)
    /\ line[P[n]] \in DigitTokens
    /\ line[P[n + 1]] \in DigitTokens
    /\ DecimalPrefix(line[P[n + 2]]) # ""

\* re.match of the Type Treatment pattern (lines 265 and 329)
regex_treatment(line) ==
    LET P == Pos(line)
        K == {k \in 1..Len(P) : TailTreatment(line, P, k + 1)}
    IN  IF K = {} THEN NoMatch
        ELSE LET k == CHOOSE k \in K : \A j \in K : k <= j
             IN  [ok |-> TRUE, g1 |-> Capture(line, P[1], P[k]),
                  g2 |-> line[P[k + 1]], g3 |-> line[P[k + 2]],
                  g4 |-> DecimalPrefix(line[P[k + 3]])]

\* m.group(i).strip() of a captured group
StripGroup(g) == IF g = " " THEN "" ELSE g

\* ------------------------------------------------------------------------
\* The two stimulation strategies and the merge
\* ------------------------------------------------------------------------
RequiredKeys == {"date_stimulated", "stimulated_formation", "top_depth",
                 "bottom_depth", "stimulation_stages", "volume", "volume_units"}

OtherKeys == {"type_treatment", "acid_percent", "lbs_proppant",
              "max_treatment_pressure", "max_treatment_rate", "proppant_details"}

StimKeys == RequiredKeys \cup OtherKeys

\* the dictionary both strategies start from (lines 224-238, 288-302)
EmptyStim == [k \in StimKeys |-> None]

\* substring and prefix tests on a stripped line
HasPair(line, a, b) == \E i \in 1..(Len(line) - 1) : line[i] = a /\ line[i + 1] = b
StartsWithPair(line, a, b) == Len(line) >= 2 /\ line[1] = a /\ line[2] = b
HasDetails(line) == \E i \in 1..Len(line) : line[i] = "Details"

regex_row(strategy, line) ==
    IF strategy = "doc1" THEN regex_doc1(line) ELSE regex_doc2(line)

\* lines 241-261 / 305-325: the line after a "Date Stimulated" line
DateStimulatedStep(strategy, lines, i, data) ==
    IF HasPair(Strip(lines[i]), "Date", "Stimulated") /\ i + 1 <= Len(lines) THEN
        LET m == regex_row(strategy, Strip(lines[i + 1])) IN
        IF m.ok THEN
            [data EXCEPT !["date_stimulated"] = ParseDate(m.g1),
                         !["stimulated_formation"] = StripGroup(m.g2),
                         !["top_depth"] = m.g3,
                         !["bottom_depth"] = m.g4,
                         !["stimulation_stages"] = m.g5,
                         !["volume"] = m.g6,
                         !["volume_units"] = m.g7]
        ELSE data
    ELSE data

\* lines 262-270 / 326-334: the line after a "Type Treatment" line
TypeTreatmentStep(lines, i, data) ==
    IF HasPair(Strip(lines[i]), "Type", "Treatment") /\ i + 1 <= Len(lines) THEN
        LET m == regex_treatment(Strip(lines[i + 1])) IN
        IF m.ok THEN
            [data EXCEPT !["type_treatment"] = m.g1,
                         !["lbs_proppant"] = m.g2,
                         !["max_treatment_pressure"] = m.g3,
                         !["max_treatment_rate"] = m.g4]
        ELSE data
    ELSE data

\* the block ended by a blank line only
RECURSIVE DetailsLines_UntilBlank(_, _)
DetailsLines_UntilBlank(lines, j) ==
    IF j > Len(lines) THEN <<>>
    ELSE LET l == Strip(lines[j]) IN
         IF l = <<>> THEN <<>>
         ELSE <<Raw(l)>> \o DetailsLines_UntilBlank(lines, j + 1)

\* lines 273-277 / 337-341: the lines of the Details block starting at line j
RECURSIVE DetailsLines(_, _)
DetailsLines(lines, j) ==
    IF j > Len(lines) THEN <<>>
    ELSE LET l == Strip(lines[j]) IN
         IF l = <<>> \/ StartsWithPair(l, "Date", "Stimulated")
                     \/ StartsWithPair(l, "Type", "Treatment")
         THEN <<>>
         ELSE <<Raw(l)>> \o DetailsLines(lines, j + 1)

\* lines 271-280 / 335-344: the Details block, which ends the scan
DetailsStep(lines, i, data) ==
    LET details_lines == DetailsLines(lines, i + 1) IN
    IF details_lines # <<>>
    THEN [data EXCEPT !["proppant_details"] = JoinNL(details_lines)]
    ELSE data

\* the for loop over the lines, from line i on (lines 239-281 / 303-345)
RECURSIVE Scan(_, _, _, _)
Scan(strategy, lines, i, data) ==
    IF i > Len(lines) THEN data
    ELSE LET d1 == DateStimulatedStep(strategy, lines, i, data)
             d2 == TypeTreatmentStep(lines, i, d1)
         IN  IF HasDetails(Strip(lines[i]))
             THEN DetailsStep(lines, i, d2)
             ELSE Scan(strategy, lines, i + 1, d2)

parse_stimulation_data_doc1(text) == Scan("doc1", splitlines(text), 1, EmptyStim)

parse_stimulation_data_doc2(text) == Scan("doc2", splitlines(text), 1, EmptyStim)

\* variant: a value of data2 replaces the one data1 holds
merge_overwriting(data1, data2) ==
    [k \in StimKeys |->
        IF k \in RequiredKeys /\ data2[k] # None THEN data2[k] ELSE data1[k]]

\* variant: every key is backfilled, not only the required ones
merge_every_key(data1, data2) ==
    [k \in StimKeys |->
        IF data1[k] = None /\ data2[k] # None THEN data2[k] ELSE data1[k]]

\* lines 347-357
merge_stimulation_data(data1, data2) ==
    [k \in StimKeys |->
        IF k \in RequiredKeys /\ data1[k] = None /\ data2[k] # None
        THEN data2[k] ELSE data1[k]]

\* line 484: any(stim_data.get(key) is None for key in required_keys)
AnyRequiredMissing(data) == \E k \in RequiredKeys : data[k] = None

\* Python truthiness of an optional string
Truthy(v) == v # None /\ v # ""

\* line 489
ShouldEmit(data) == Truthy(data["date_stimulated"]) \/ Truthy(data["stimulated_formation"])

\* ------------------------------------------------------------------------
\* Inputs: what the PDF layer and the OCR engine may return for a page
\* ------------------------------------------------------------------------
HdrDate == <<"Date", "Stimulated">>
HdrTreat == <<"Type", "Treatment">>
HdrDetails == <<"Details">>
RowPipe == <<"04/01/2023", "Three", "Forks", "8000", "9000", "30", "|", "5000", "Barrels">>
RowWs == <<"04/02/2023", "Bakken", "8000", "9000", "30", "5000", "Barrels">>
RowBlank == <<"13/45/2023", WIDE, "8000", "9000", "30", "|", "5000", "Barrels">>
RowTreat == <<"Gel", "9000", "30", "4.5">>
RowProp == <<"Sand:", "50000">>

\* results of page.extract_text() or "" (line 125): no text layer, a page
\* number, a treatment table of exactly 30 characters, and two
\* stimulation tables
NativeTexts ==
    { <<>>,
      <<NL>> \o HdrDate \o <<NL>>,
      HdrTreat \o <<NL>> \o RowTreat,
      HdrDate \o <<NL>> \o RowWs \o <<NL>> \o HdrDetails \o <<NL>> \o RowProp,
      HdrDate \o <<NL>> \o RowBlank }

\* results of pytesseract.image_to_string (line 130)
OcrTexts == { RowPipe \o <<NL>> }

\* ------------------------------------------------------------------------
\* Text acquisition: extract_text_from_pdf (lines 115-138)
\* ------------------------------------------------------------------------
min_chars_per_page == 30

\* line 126
NeedsOcr_Inclusive(extracted_text) == CharLen(Strip(extracted_text)) <= min_chars_per_page

NeedsOcr(extracted_text) == CharLen(Strip(extracted_text)) < min_chars_per_page

\* lines 131-132
CombineOcr(extracted_text, ocr_text) ==
    Strip(Strip(extracted_text) \o <<NL>> \o Strip(ocr_text))

\* line 135
AppendPage_Front(text, extracted_text) == extracted_text \o <<NL>> \o text

AppendPage(text, extracted_text) == text \o extracted_text \o <<NL>>

VARIABLES
    pc,             \* where main stands
    docs,           \* per directory entry: what happened to it (history)
    total_pages,    \* len(pdf.pages) of the open PDF
    page_number,    \* pages of the open PDF iterated so far
    pages,          \* per iterated page of the open PDF: what happened (history)
    full_text,      \* full_text, then text_content
    well_info_id,   \* the identity insert_well_info returned
    stim_data,      \* the record main holds after lines 481-486
    stimA,          \* what parse_stimulation_data_doc1 returned (history)
    stimB,          \* what parse_stimulation_data_doc2 returned, if it ran (history)
    ranB,           \* whether lines 485-486 ran for the current document
    db,             \* the rows persistence received, in order
    cleaned,        \* data.preprocessing.py: the argument and results of the function applied
    well_data,      \* what parse_well_info returned
    scan            \* the line loop of one strategy: lines, position, data, history

vars == <<pc, docs, total_pages, page_number, pages, full_text, well_info_id,
          stim_data, stimA, stimB, ranB, db, cleaned, well_data, scan>>

acqVars == <<total_pages, page_number, pages, full_text>>
stimVars == <<stim_data, stimA, stimB, ranB>>
parseVars == <<well_data, scan>>

cur == Len(docs)

Init ==
    /\ pc = "listdir"
    /\ docs = <<>>
    /\ total_pages = 0
    /\ page_number = 0
    /\ pages = <<>>
    /\ full_text = <<>>
    /\ well_info_id = 0
    /\ stim_data = EmptyStim
    /\ stimA = EmptyStim
    /\ stimB = EmptyStim
    /\ ranB = FALSE
    /\ db = <<>>
    /\ cleaned = <<>>
    /\ well_data = <<>>
    /\ scan = <<>>

\* lines 459-460: the next directory entry is not a PDF and is skipped
SkipFile ==
    /\ pc = "listdir"
    /\ cur < MaxFiles
    /\ docs' = Append(docs, [is_pdf |-> FALSE, opened |-> FALSE, finished |-> FALSE])
    /\ UNCHANGED <<pc, acqVars, well_info_id, stimVars, db, cleaned, parseVars>>

\* lines 459-465, 120-123: the next directory entry is a PDF; pdfplumber
\* opens it, or raises and line 136 returns the empty full_text.  The
\* stimulation record of the previous document is dead here (line 481
\* assigns stim_data before any read) and is dropped.
OpenPdf ==
    /\ pc = "listdir"
    /\ cur < MaxFiles
    /\ page_number' = 0
    /\ pages' = <<>>
    /\ full_text' = <<>>
    /\ \/ \E n \in 0..MaxPages :
            /\ total_pages' = n
            /\ docs' = Append(docs, [is_pdf |-> TRUE, opened |-> TRUE, finished |-> FALSE])
            /\ pc' = "pages"
       \/ /\ total_pages' = 0
          /\ docs' = Append(docs, [is_pdf |-> TRUE, opened |-> FALSE, finished |-> FALSE])
          /\ pc' = "well_info"
    /\ stim_data' = EmptyStim
    /\ stimA' = EmptyStim
    /\ stimB' = EmptyStim
    /\ ranB' = FALSE
    /\ UNCHANGED <<well_info_id, db, cleaned, parseVars>>

PageRecord(native, threw, rendered, ocr, failed, text) ==
    [native |-> native, native_threw |-> threw, rendered |-> rendered,
     ocr |-> ocr, ocr_failed |-> failed, appended |-> text # <<None>>,
     text |-> IF text = <<None>> THEN <<>> ELSE text]

\* the page was appended to full_text (line 135); the loop goes on
PageDone(rec) ==
    /\ pages' = Append(pages, rec)
    /\ full_text' = AppendPage(full_text, rec.text)
    /\ pc' = "pages"

\* an exception left the loop (line 136); line 138 returns full_text
PageAborted(rec) ==
    /\ pages' = Append(pages, rec)
    /\ full_text' = full_text
    /\ pc' = "well_info"

\* lines 124-135: one iteration of the page loop
ProcessPage ==
    /\ pc = "pages"
    /\ page_number < total_pages
    /\ page_number' = page_number + 1
    /\ \/ \* page.extract_text() raises
          PageAborted(PageRecord(<<>>, TRUE, FALSE, FALSE, FALSE, <<None>>))
       \/ \E extracted_text \in NativeTexts :
            IF NeedsOcr(extracted_text) THEN
                \/ \* convert_from_path raises
                   PageAborted(PageRecord(extracted_text, FALSE, TRUE, FALSE, TRUE, <<None>>))
                \/ \* convert_from_path returns no image
                   PageDone(PageRecord(extracted_text, FALSE, TRUE, FALSE, FALSE, extracted_text))
                \/ \* pytesseract.image_to_string raises
                   PageAborted(PageRecord(extracted_text, FALSE, TRUE, TRUE, TRUE, <<None>>))
                \/ \E ocr_text \in OcrTexts :
                     PageDone(PageRecord(extracted_text, FALSE, TRUE, TRUE, FALSE,
                                         CombineOcr(extracted_text, ocr_text)))
            ELSE
                PageDone(PageRecord(extracted_text, FALSE, FALSE, FALSE, FALSE, extracted_text))
    /\ UNCHANGED <<docs, total_pages, well_info_id, stimVars, db, cleaned, parseVars>>

\* the page loop is exhausted; line 138 returns full_text
EndOfPages ==
    /\ pc = "pages"
    /\ page_number = total_pages
    /\ pc' = "well_info"
    /\ UNCHANGED <<docs, acqVars, well_info_id, stimVars, db, cleaned, parseVars>>

\* cursor.lastrowid of the AUTO_INCREMENT key of well_info (lines 52, 400)
LastRowId(rows) == Cardinality({i \in 1..Len(rows) : rows[i].table = "well_info"}) + 1

\* lines 476-478: the well record is inserted and its identity kept
InsertWellInfo_Stale ==
    /\ pc = "well_info"
    /\ db' = Append(db, [table |-> "well_info", id |-> LastRowId(db), file |-> cur])
    /\ well_info_id' = IF well_info_id = 0 THEN LastRowId(db) ELSE well_info_id
    /\ pc' = "stimulation"
    /\ UNCHANGED <<docs, acqVars, stimVars, cleaned, parseVars>>

InsertWellInfo ==
    /\ pc = "well_info"
    /\ db' = Append(db, [table |-> "well_info", id |-> LastRowId(db), file |-> cur])
    /\ well_info_id' = LastRowId(db)
    /\ pc' = "stimulation"
    /\ UNCHANGED <<docs, acqVars, stimVars, cleaned, parseVars>>

\* lines 481-486: Strategy A, then Strategy B and the merge if a required
\* field is missing
ParseStimulation ==
    /\ pc = "stimulation"
    /\ LET data1 == parse_stimulation_data_doc1(full_text)
           data2 == parse_stimulation_data_doc2(full_text)
       IN  /\ stimA' = data1
           /\ IF AnyRequiredMissing(data1)
              THEN /\ ranB' = TRUE
                   /\ stimB' = data2
                   /\ stim_data' = merge_stimulation_data(data1, data2)
              ELSE /\ ranB' = FALSE
                   /\ stimB' = EmptyStim
                   /\ stim_data' = data1
    /\ pc' = "emit"
    /\ UNCHANGED <<docs, acqVars, well_info_id, db, cleaned, parseVars>>

\* lines 489-491: the stimulation record is inserted, or dropped
EmitStimulation ==
    /\ pc = "emit"
    /\ db' = IF ShouldEmit(stim_data)
             THEN Append(db, [table |-> "stimulation_data",
                              well_info_id |-> well_info_id, file |-> cur])
             ELSE db
    /\ docs' = [docs EXCEPT ![cur].finished = TRUE]
    /\ pc' = "listdir"
    /\ UNCHANGED <<acqVars, well_info_id, stimVars, cleaned, parseVars>>

\* a mysql.connector call of lines 477 or 490 raises: main ends there
PersistenceFails ==
    /\ pc \in {"well_info", "emit"}
    /\ pc = "emit" => ShouldEmit(stim_data)
    /\ pc' = "crashed"
    /\ UNCHANGED <<docs, acqVars, well_info_id, stimVars, db, cleaned, parseVars>>

\* line 493: the directory listing is exhausted
Finish ==
    /\ pc = "listdir"
    /\ pc' = "done"
    /\ UNCHANGED <<docs, acqVars, well_info_id, stimVars, db, cleaned, parseVars>>

Next ==
    \/ SkipFile
    \/ OpenPdf
    \/ ProcessPage
    \/ EndOfPages
    \/ InsertWellInfo
    \/ ParseStimulation
    \/ EmitStimulation
    \/ PersistenceFails
    \/ Finish

Spec == Init /\ [][Next]_vars

\* ------------------------------------------------------------------------
\* Text normalisation: clean_text (data.preprocessing.py, lines 88-112)
\* A string is a sequence of one-character strings.
\* ------------------------------------------------------------------------
Alphabet == {"N", "a", "/", ":", " ", "<", ">"}

Whitespace == {" ", "\n"}
LetterChars == {"N", "A", "a", "n"}
DigitChars == {"0", "1", "2", "3", "4", "5", "6", "7", "8", "9"}

\* str.upper and the tag-name folding of the HTML parser, per character
Upper(c) == CASE c = "a" -> "A" [] c = "n" -> "N" [] OTHER -> c
Lower(c) == CASE c = "A" -> "a" [] c = "N" -> "n" [] OTHER -> c

\* the sentinel
NA == <<"N", "/", "A">>

Digit(n) == <<"0", "1", "2", "3", "4", "5", "6", "7", "8", "9">>[n + 1]
TwoDigits(n) == <<Digit(n \div 10), Digit(n % 10)>>
FourDigits(n) == TwoDigits(n \div 100) \o TwoDigits(n % 100)

\* lines 89-92: datetime and date values are formatted first
FormatDate(v) == FourDigits(v.year) \o <<"-">> \o TwoDigits(v.month) \o <<"-">> \o TwoDigits(v.day)

FormatDateTime(v) ==
    FormatDate(v) \o <<" ">> \o TwoDigits(v.hour) \o <<":">> \o TwoDigits(v.minute)
                  \o <<":">> \o TwoDigits(v.second)

ToText(v) ==
    CASE v.kind = "datetime" -> FormatDateTime(v)
      [] v.kind = "date" -> FormatDate(v)
      [] v.kind = "none" -> <<>>
      [] OTHER -> v.chars

\* line 97: re.sub(r"\s+", "", str(text)).upper()
Probe(s) ==
    LET t == SelectSeq(s, LAMBDA c : c \notin Whitespace)
    IN  [i \in 1..Len(t) |-> Upper(t[i])]

\* character i of s lies inside a tag "<...>"
InTag(s, i) ==
    \E j \in 1..i : /\ s[j] = "<"
                    /\ \A k \in j..(i - 1) : s[k] # ">"

\* line 105: BeautifulSoup(...).get_text(): the text outside the tags
get_text(s) ==
    LET keep == SelectSeq([i \in 1..Len(s) |-> i], LAMBDA i : ~InTag(s, i))
    IN  [i \in 1..Len(keep) |-> s[keep[i]]]

\* str.strip on a string of characters
StripChars(s) ==
    LET solid == {i \in 1..Len(s) : s[i] \notin Whitespace} IN
    IF solid = {} THEN <<>>
    ELSE SubSeq(s, CHOOSE i \in solid : \A j \in solid : i <= j,
                   CHOOSE i \in solid : \A j \in solid : i >= j)

Indent(depth) == [i \in 1..depth |-> " "]

\* the closing tags of the elements still open at the end of the input
RECURSIVE CloseTags(_)
CloseTags(open) ==
    IF open = <<>> THEN <<>>
    ELSE Indent(Len(open) - 1) \o <<"<", "/">> \o open[Len(open)] \o <<">", "\n">>
         \o CloseTags(SubSeq(open, 1, Len(open) - 1))

\* line 103: BeautifulSoup(...).prettify(): one tag or text fragment per
\* line, indented by its depth, tag names in lower case, open elements closed
RECURSIVE PrettifyFrom(_, _, _)
PrettifyFrom(s, i, open) ==
    IF i > Len(s) THEN CloseTags(open)
    ELSE IF s[i] = "<" THEN
        LET j == CHOOSE j \in i..Len(s) : s[j] = ">" /\ \A k \in i..(j - 1) : s[k] # ">"
            name == [k \in 1..(j - i - 1) |-> Lower(s[i + k])]
        IN  Indent(Len(open)) \o <<"<">> \o name \o <<">", "\n">>
            \o PrettifyFrom(s, j + 1, Append(open, name))
    ELSE
        LET stops == {j \in i..Len(s) : s[j] = "<"}
            e == IF stops = {} THEN Len(s) + 1
                 ELSE CHOOSE j \in stops : \A k \in stops : j <= k
            t == StripChars(SubSeq(s, i, e - 1))
        IN  (IF t = <<>> THEN <<>> ELSE Indent(Len(open)) \o t \o <<"\n">>)
            \o PrettifyFrom(s, e, open)

prettify(s) == PrettifyFrom(s, 1, <<>>)

\* line 107: re.sub(r"[^a-zA-Z0-9.,\s-]", "", text)
KeepChar(c) == c \in LetterChars \cup DigitChars \cup Whitespace \cup {".", ",", "-"}
RemoveSpecial(s) == SelectSeq(s, KeepChar)

\* line 109: re.sub(r":\s*", "", text)
RemoveColons(s) ==
    LET drop(i) == \/ s[i] = ":"
                   \/ /\ s[i] \in Whitespace
                      /\ \E j \in 1..(i - 1) : /\ s[j] = ":"
                                               /\ \A k \in (j + 1)..i : s[k] \in Whitespace
        keep == SelectSeq([i \in 1..Len(s) |-> i], LAMBDA i : ~drop(i))
    IN  [i \in 1..Len(keep) |-> s[keep[i]]]

\* line 110: re.sub(r"\s+", " ", text).strip()
CollapseSpaces(s) ==
    LET t == StripChars(s)
        keep == SelectSeq([i \in 1..Len(t) |-> i],
                          LAMBDA i : ~(t[i] \in Whitespace /\ t[i - 1] \in Whitespace))
    IN  [i \in 1..Len(keep) |-> IF t[keep[i]] \in Whitespace THEN " " ELSE t[keep[i]]]

\* the NA rule consulted only on the markup-stripping path
clean_text_probe_when_stripping(v, preserve_tags) ==
    LET text == ToText(v) IN
    IF text = <<>> THEN NA
    ELSE IF ~preserve_tags /\ Probe(text) = <<"N", "A">> THEN NA
    ELSE LET soup == IF preserve_tags THEN prettify(text) ELSE get_text(text)
             out == CollapseSpaces(RemoveColons(RemoveSpecial(soup)))
         IN  IF out # <<>> THEN out ELSE NA

\* lines 88-112
clean_text(v, preserve_tags) ==
    LET text == ToText(v) IN
    IF text = <<>> THEN NA
    ELSE IF Probe(text) = <<"N", "A">> THEN NA
    ELSE LET soup == IF preserve_tags THEN prettify(text) ELSE get_text(text)
             out == CollapseSpaces(RemoveColons(RemoveSpecial(soup)))
         IN  IF out # <<>> THEN out ELSE NA

Str(s) == [kind |-> "str", chars |-> s]

\* markup the HTML parser reads as tags: every "<" opens "<" letter ">" and
\* every ">" closes one
WellFormed(s) ==
    /\ \A i \in 1..Len(s) : s[i] = "<" =>
            i + 2 <= Len(s) /\ s[i + 1] \in LetterChars /\ s[i + 2] = ">"
    /\ \A i \in 1..Len(s) : s[i] = ">" => i > 2 /\ s[i - 2] = "<"

CleanInputs ==
    {Str(s) : s \in {t \in UNION {[1..n -> Alphabet] : n \in 0..MaxStrLen} : WellFormed(t)}}
    \cup {[kind |-> "none"],
          [kind |-> "date", year |-> 2023, month |-> 4, day |-> 1],
          [kind |-> "datetime", year |-> 2023, month |-> 4, day |-> 1,
           hour |-> 10, minute |-> 30, second |-> 0]}

InitClean ==
    /\ pc = "clean"
    /\ docs = <<>>
    /\ total_pages = 0
    /\ page_number = 0
    /\ pages = <<>>
    /\ full_text = <<>>
    /\ well_info_id = 0
    /\ stim_data = EmptyStim
    /\ stimA = EmptyStim
    /\ stimB = EmptyStim
    /\ ranB = FALSE
    /\ db = <<>>
    /\ \E v \in CleanInputs, f \in BOOLEAN :
         cleaned = [arg |-> v, preserve_tags |-> f, out |-> <<>>]
    /\ well_data = <<>>
    /\ scan = <<>>

\* clean_text is applied to the value, then to its own result
Normalize ==
    /\ pc = "clean"
    /\ Len(cleaned.out) < 2
    /\ LET v == IF cleaned.out = <<>> THEN cleaned.arg
                ELSE Str(cleaned.out[Len(cleaned.out)])
       IN  cleaned' = [cleaned EXCEPT !.out = Append(@, clean_text(v, cleaned.preserve_tags))]
    /\ UNCHANGED <<pc, docs, acqVars, well_info_id, stimVars, db, parseVars>>

NextClean == Normalize

SpecClean == InitClean /\ [][NextClean]_vars

\* ------------------------------------------------------------------------
\* The merge on its own: lines 483-486 applied to any two strategy results
\* ------------------------------------------------------------------------
FieldValues == {None, "x", "y"}
VariedKeys == {"date_stimulated", "top_depth", "type_treatment", "proppant_details"}

\* strategy results: the varied keys take any value, the other required
\* keys are all missing or all present, the rest is missing
StrategyResults ==
    {[k \in StimKeys |->
        IF k \in VariedKeys THEN f[k]
        ELSE IF k \in RequiredKeys THEN rest ELSE None] :
     f \in [VariedKeys -> FieldValues], rest \in {None, "x"}}

InitMerge ==
    /\ pc = "merge"
    /\ docs = <<>>
    /\ total_pages = 0
    /\ page_number = 0
    /\ pages = <<>>
    /\ full_text = <<>>
    /\ well_info_id = 0
    /\ stimA \in StrategyResults
    /\ stimB \in StrategyResults
    /\ stim_data = stimA
    /\ ranB = FALSE
    /\ db = <<>>
    /\ cleaned = <<>>
    /\ well_data = <<>>
    /\ scan = <<>>

\* lines 483-486 on the results stimA and stimB of the two strategies
MergeIfIncomplete ==
    /\ pc = "merge"
    /\ IF AnyRequiredMissing(stim_data)
       THEN /\ ranB' = TRUE
            /\ stim_data' = merge_stimulation_data(stim_data, stimB)
       ELSE UNCHANGED <<ranB, stim_data>>
    /\ pc' = "merged"
    /\ UNCHANGED <<docs, acqVars, well_info_id, stimA, stimB, db, cleaned, parseVars>>

NextMerge == MergeIfIncomplete

SpecMerge == InitMerge /\ [][NextMerge]_vars

\* ------------------------------------------------------------------------
\* Proppant details: split_proppant_details (data.preprocessing.py, 120-135)
\* ------------------------------------------------------------------------
\* line 124: str.split('\n')
split_newline(s) ==
    LET brk == {i \in 1..Len(s) : s[i] = "\n"}
        starts == {1} \cup {i + 1 : i \in brk}
        order == SelectSeq([i \in 1..(Len(s) + 1) |-> i], LAMBDA i : i \in starts)
        stop(b) == IF \E i \in brk : i >= b
                   THEN CHOOSE i \in brk : i >= b /\ \A j \in brk : j >= b => i <= j
                   ELSE Len(s) + 1
    IN  [n \in 1..Len(order) |-> SubSeq(s, order[n], stop(order[n]) - 1)]

\* positions of a ":" that has text before it and " " and a digit after it
ColonSites(l) ==
    {k \in 2..(Len(l) - 2) : l[k] = ":" /\ l[k + 1] = " " /\ l[k + 2] \in DigitChars}

\* the digits \d+ takes from position i on
DigitRun(l, i) ==
    LET ends == {j \in i..Len(l) : \A k \in i..j : l[k] \in DigitChars}
    IN  SubSeq(l, i, CHOOSE j \in ends : \A k \in ends : k <= j)

\* line 128: re.match(r"(.+): (\d+)", l); (.+) is greedy, so the last site
match_proppant(l) ==
    IF ColonSites(l) = {} THEN NoMatch
    ELSE LET k == CHOOSE k \in ColonSites(l) : \A j \in ColonSites(l) : j <= k
         IN  <<SubSeq(l, 1, k - 1), DigitRun(l, k + 2)>>

DigitValue(c) == CHOOSE n \in 0..9 : Digit(n) = c

\* line 132: int() of a run of digits
RECURSIVE int(_)
int(ds) ==
    IF ds = <<>> THEN 0
    ELSE 10 * int(SubSeq(ds, 1, Len(ds) - 1)) + DigitValue(ds[Len(ds)])

\* lines 130-133
ProppantEntry(m) == [type |-> StripChars(m[1]), value |-> int(m[2])]

\* the entries put in front of the list instead of behind it
RECURSIVE ProppantFrom_Front(_, _)
ProppantFrom_Front(details_list, i) ==
    IF i > Len(details_list) THEN <<>>
    ELSE LET m == match_proppant(StripChars(details_list[i]))
         IN  ProppantFrom_Front(details_list, i + 1)
             \o (IF m # NoMatch THEN <<ProppantEntry(m)>> ELSE <<>>)

\* lines 127-133: the loop from line i on
RECURSIVE ProppantFrom(_, _)
ProppantFrom(details_list, i) ==
    IF i > Len(details_list) THEN <<>>
    ELSE LET m == match_proppant(StripChars(details_list[i]))
         IN  (IF m # NoMatch THEN <<ProppantEntry(m)>> ELSE <<>>)
             \o ProppantFrom(details_list, i + 1)

\* lines 120-135
split_proppant_details(v) ==
    IF v.kind = "none" THEN <<>>
    ELSE ProppantFrom(split_newline(v.chars), 1)

\* lines of a proppant block as the extraction stores them
ProppantLines ==
    { <<"S", ":", " ", "5">>,
      <<" ", "S", ":", " ", "5", "0", " ">>,
      <<"S", ":", "5">>,
      <<>>,
      <<"S", ":", " ", "-", "5">>,
      <<"S", ":", " ", "4", ":", " ", "7">>,
      <<"S">>,
      <<"a", " ", ":", " ", "9", " ", "l", "b">>,
      <<":", " ", "5">> }

RECURSIVE JoinLines(_)
JoinLines(ls) ==
    IF Len(ls) = 0 THEN <<>>
    ELSE IF Len(ls) = 1 THEN ls[1]
    ELSE ls[1] \o <<"\n">> \o JoinLines(Tail(ls))

ProppantInputs ==
    {[kind |-> "none"]}
    \cup {Str(JoinLines(ls)) : ls \in UNION {[1..n -> ProppantLines] : n \in 0..MaxLines}}

InitProppant ==
    /\ pc = "proppant"
    /\ docs = <<>>
    /\ total_pages = 0
    /\ page_number = 0
    /\ pages = <<>>
    /\ full_text = <<>>
    /\ well_info_id = 0
    /\ stim_data = EmptyStim
    /\ stimA = EmptyStim
    /\ stimB = EmptyStim
    /\ ranB = FALSE
    /\ db = <<>>
    /\ \E v \in ProppantInputs : cleaned = [arg |-> v, out |-> <<>>]
    /\ well_data = <<>>
    /\ scan = <<>>

\* line 220
SplitProppant ==
    /\ pc = "proppant"
    /\ cleaned' = [cleaned EXCEPT !.out = split_proppant_details(cleaned.arg)]
    /\ pc' = "proppant_done"
    /\ UNCHANGED <<docs, acqVars, well_info_id, stimVars, db, parseVars>>

NextProppant == SplitProppant

SpecProppant == InitProppant /\ [][NextProppant]_vars

\* ------------------------------------------------------------------------
\* Block statistics: process_block_stats (data.preprocessing.py, 137-169)
\* An entry (the text between two commas, trimmed) is a sequence of tokens
\* separated by blanks.  A quantity is tenths * 10^exp10 tenths.
\* ------------------------------------------------------------------------
\* the characters of the tokens made of digits and dots only
MagnitudeChars(t) ==
    CASE t = "1.5" -> <<"1", ".", "5">>
      [] t = "2" -> <<"2">>
      [] t = "1.2.3" -> <<"1", ".", "2", ".", "3">>
      [] t = "2020" -> <<"2", "0", "2", "0">>
      [] OTHER -> <<>>

IsMagnitude(t) == MagnitudeChars(t) # <<>>
IsLetters(t) == t \in {"K", "m", "B", "MCF", "Barrels", "of", "oil", "gas", "in", "May", "no", "data"}
IsYear(t) == Len(MagnitudeChars(t)) >= 4 /\ \A i \in 1..4 : MagnitudeChars(t)[i] \in DigitChars

\* line 143: re.search of the entry pattern from token p on; the groups
\* (number, suffix, unit, month, year), or NoMatch
BlockMatchAt(e, p) ==
    LET hasSuffix == p + 1 <= Len(e) /\ e[p + 1] \in {"k", "K", "m", "M", "b", "B"}
        u == IF hasSuffix THEN p + 2 ELSE p + 1
        ins == {q \in (u + 3)..(Len(e) - 2) :
                    /\ e[q] = "in"
                    /\ \A j \in (u + 2)..(q - 1) : IsLetters(e[j])
                    /\ IsLetters(e[q + 1])
                    /\ IsYear(e[q + 2])}
    IN  IF /\ p <= Len(e) /\ IsMagnitude(e[p])
           /\ u + 1 <= Len(e) /\ e[u] \in {"MCF", "Barrels"} /\ e[u + 1] = "of"
           /\ ins # {}
        THEN LET q == CHOOSE q \in ins : \A j \in ins : j <= q
             IN  <<e[p], IF hasSuffix THEN e[p + 1] ELSE "", e[u], e[q + 1], e[q + 2]>>
        ELSE NoMatch

block_search(e) ==
    LET ps == {p \in 1..Len(e) : BlockMatchAt(e, p) # NoMatch}
    IN  IF ps = {} THEN NoMatch
        ELSE BlockMatchAt(e, CHOOSE p \in ps : \A j \in ps : p <= j)

\* line 146: float() takes digits with at most one dot
float_ok(cs) ==
    /\ \E i \in 1..Len(cs) : cs[i] \in DigitChars
    /\ Cardinality({i \in 1..Len(cs) : cs[i] = "."}) <= 1

\* the value of float(), in tenths
float_tenths(cs) ==
    LET dots == {i \in 1..Len(cs) : cs[i] = "."}
        d == IF dots = {} THEN Len(cs) + 1 ELSE CHOOSE i \in dots : TRUE
        frac == SubSeq(cs, d + 1, Len(cs))
    IN  10 * int(SubSeq(cs, 1, d - 1)) + (IF frac = <<>> THEN 0 ELSE DigitValue(frac[1]))

\* lines 147-148: str.upper of the suffix and of the unit
upper(t) ==
    CASE t = "k" -> "K" [] t = "m" -> "M" [] t = "b" -> "B"
      [] t = "Barrels" -> "BARRELS"
      [] OTHER -> t

\* lines 152-159: the power of ten the number is multiplied by
Scale(suffix) ==
    CASE suffix = "K" -> 3
      [] suffix = "M" -> 6
      [] suffix = "B" -> 9
      [] OTHER -> 0

EntryPool ==
    { <<"1.5", "K", "Barrels", "of", "oil", "in", "May", "2020">>,
      <<"2", "MCF", "of", "gas", "in", "May", "2020">>,
      <<"2", "m", "MCF", "of", "gas", "in", "May", "2020">>,
      <<"2", "B", "Barrels", "of", "oil", "in", "May", "2020">>,
      <<"no", "data">>,
      <<>>,
      <<"1.2.3", "K", "Barrels", "of", "oil", "in", "May", "2020">> }

\* line 138: what block_stats.split(',') gives, at least one entry
BlockInputs == UNION {[1..n -> EntryPool] : n \in 1..MaxEntries}

InitBlock ==
    /\ pc = "block_stats"
    /\ docs = <<>>
    /\ total_pages = 0
    /\ page_number = 0
    /\ pages = <<>>
    /\ full_text = <<>>
    /\ well_info_id = 0
    /\ stim_data = EmptyStim
    /\ stimA = EmptyStim
    /\ stimB = EmptyStim
    /\ ranB = FALSE
    /\ db = <<>>
    /\ \E es \in BlockInputs :
         cleaned = [entries |-> es, done |-> 0, handled |-> <<>>, warnings |-> <<>>]
    /\ well_data = <<>>
    /\ scan = <<>>

\* lines 140-169: one iteration of the loop over the entries
ProcessEntry ==
    /\ pc = "block_stats"
    /\ cleaned.done < Len(cleaned.entries)
    /\ LET i == cleaned.done + 1
           m == block_search(cleaned.entries[i])
       IN  IF m = NoMatch
           THEN /\ cleaned' = [cleaned EXCEPT !.done = i, !.warnings = Append(@, i)]
                /\ UNCHANGED <<pc, db>>
           ELSE IF ~float_ok(MagnitudeChars(m[1]))
           THEN /\ pc' = "block_raised"
                /\ UNCHANGED <<cleaned, db>>
           ELSE /\ db' = Append(db, [table |-> "block_stats_data",
                                      quantity |-> [tenths |-> float_tenths(MagnitudeChars(m[1])),
                                                   exp10 |-> Scale(upper(m[2]))],
                                      unit |-> upper(m[3]),
                                      month |-> m[4],
                                      year |-> int(SubSeq(MagnitudeChars(m[5]), 1, 4))])
                /\ cleaned' = [cleaned EXCEPT !.done = i, !.handled = Append(@, i)]
                /\ UNCHANGED pc
    /\ UNCHANGED <<docs, acqVars, well_info_id, stimVars, parseVars>>

\* line 140: the entries are exhausted
EntriesDone ==
    /\ pc = "block_stats"
    /\ cleaned.done = Len(cleaned.entries)
    /\ pc' = "block_done"
    /\ UNCHANGED <<docs, acqVars, well_info_id, stimVars, db, cleaned, parseVars>>

NextBlock == ProcessEntry \/ EntriesDone

SpecBlock == InitBlock /\ [][NextBlock]_vars

\* ------------------------------------------------------------------------
\* Coordinates: parse_well_info (pdf_parse.py, lines 162-163 and 192-210)
\* The text is a sequence of lexical units: words, numbers (as their
\* characters) and symbols.  A coordinate is counted in ticks of 1/36000 of
\* a degree (a tenth of an arc second); Python's None is [kind |-> "none"].
\* ------------------------------------------------------------------------
Word(w) == [kind |-> "word", s |-> w]
Num(cs) == [kind |-> "num", cs |-> cs]
Sym(c) == [kind |-> "sym", s |-> c]

IsSym(text, i, cs) == i <= Len(text) /\ text[i].kind = "sym" /\ text[i].s \in cs
AllDigits(cs) == \A i \in 1..Len(cs) : cs[i] \in DigitChars

\* \d{1,3} and \d{1,2}
DegForm(cs) == Len(cs) \in 1..3 /\ AllDigits(cs)
MinForm(cs) == Len(cs) \in 1..2 /\ AllDigits(cs)

\* \d{1,2}(?:[.,]\d+)?
SecForm(cs) ==
    \E n \in 1..2 :
        /\ n <= Len(cs)
        /\ AllDigits(SubSeq(cs, 1, n))
        /\ \/ Len(cs) = n
           \/ /\ Len(cs) >= n + 2
              /\ cs[n + 1] \in {".", ","}
              /\ AllDigits(SubSeq(cs, n + 2, Len(cs)))

\* the label and the hemisphere letter are matched without regard to case
UpperWord(w) ==
    CASE w = "Latitude" -> "LATITUDE"
      [] w = "Longitude" -> "LONGITUDE"
      [] w = "n" -> "N" [] w = "s" -> "S" [] w = "e" -> "E" [] w = "w" -> "W"
      [] OTHER -> w

\* lines 162-163 at unit p: the groups (deg, minutes, seconds, direction)
DmsMatchAt(text, p, label, letters) ==
    LET d == IF IsSym(text, p + 1, {":"}) THEN p + 2 ELSE p + 1
        m == d + 2
        sc == IF IsSym(text, m + 1, {"'"}) THEN m + 2 ELSE m + 1
        h == IF IsSym(text, sc + 1, {"\"", "°"}) THEN sc + 2 ELSE sc + 1
    IN  IF /\ h <= Len(text)
           /\ text[p].kind = "word" /\ UpperWord(text[p].s) = label
           /\ text[d].kind = "num" /\ DegForm(text[d].cs)
           /\ IsSym(text, d + 1, {"°", " ", "-"})
           /\ text[m].kind = "num" /\ MinForm(text[m].cs)
           /\ text[sc].kind = "num" /\ SecForm(text[sc].cs)
           /\ text[h].kind = "word" /\ UpperWord(text[h].s) \in letters
        THEN <<text[d].cs, text[m].cs, text[sc].cs, text[h].s>>
        ELSE NoMatch

\* lines 201 and 207: re.search, the leftmost match
dms_search(text, label, letters) ==
    LET ps == {p \in 1..Len(text) : DmsMatchAt(text, p, label, letters) # NoMatch}
    IN  IF ps = {} THEN NoMatch
        ELSE DmsMatchAt(text, CHOOSE p \in ps : \A q \in ps : p <= q, label, letters)

\* line 194: seconds.replace(',', '.')
replace_comma(cs) == [i \in 1..Len(cs) |-> IF cs[i] = "," THEN "." ELSE cs[i]]

\* lines 192-198
dms_to_decimal(deg, minutes, seconds, direction) ==
    LET dec == 36000 * int(deg) + 600 * int(minutes) + float_tenths(replace_comma(seconds))
    IN  [kind |-> "float",
         ticks |-> IF UpperWord(direction) \in {"S", "W"} THEN 0 - dec ELSE dec]

\* lines 165-176 and 200-213, the two coordinates
parse_well_info(text) ==
    LET lat_match == dms_search(text, "LATITUDE", {"N", "S"})
        lon_match == dms_search(text, "LONGITUDE", {"E", "W"})
    IN  [latitude |-> IF lat_match # NoMatch
                      THEN dms_to_decimal(lat_match[1], lat_match[2], lat_match[3], lat_match[4])
                      ELSE [kind |-> "none"],
         longitude |-> IF lon_match # NoMatch
                       THEN dms_to_decimal(lon_match[1], lon_match[2], lon_match[3], lon_match[4])
                       ELSE [kind |-> "none"]]

DegTexts == {<<"0">>, <<"4", "8">>, <<"9", "0">>, <<"1", "0", "3">>, <<"1", "2", "3", "4">>}
MinTexts == {<<"0">>, <<"3", "0">>, <<"6", "1">>}
SecTexts == {<<"0">>, <<"5", "9", ",", "5">>}

\* a coordinate as the reports print it, with or without the marks
DmsTexts(label, letters) ==
    {<<>>, <<Word(label), Sym(":"), Word("unknown")>>}
    \cup {<<Word(label), Sym(":"), Num(d), Sym("°"), Num(m), Sym("'"), Num(sc), Sym("\""), Word(h)>> :
            d \in DegTexts, m \in MinTexts, sc \in SecTexts, h \in letters}
    \cup {<<Word(label), Num(d), Sym(" "), Num(m), Num(sc), Word(h)>> :
            d \in {<<"4", "8">>}, m \in {<<"3", "0">>}, sc \in SecTexts, h \in letters}

InitWell ==
    /\ pc = "parse_well_info"
    /\ docs = <<>>
    /\ total_pages = 0
    /\ page_number = 0
    /\ pages = <<>>
    /\ stim_data = EmptyStim
    /\ stimA = EmptyStim
    /\ stimB = EmptyStim
    /\ ranB = FALSE
    /\ db = <<>>
    /\ cleaned = <<>>
    /\ well_data = <<>>
    /\ scan = <<>>
    /\ well_info_id = 0
    /\ \E lat \in DmsTexts("Latitude", {"N", "S", "s"}),
          lon \in DmsTexts("LONGITUDE", {"E", "W"}) :
         full_text = lat \o lon

\* line 476
ParseWellInfo ==
    /\ pc = "parse_well_info"
    /\ well_data' = parse_well_info(full_text)
    /\ pc' = "well_info_parsed"
    /\ UNCHANGED <<docs, acqVars, well_info_id, stimVars, db, cleaned, scan>>

NextWell == ParseWellInfo

SpecWell == InitWell /\ [][NextWell]_vars

\* ------------------------------------------------------------------------
\* The line loop of a strategy, one iteration at a time
\* (pdf_parse.py, lines 239-281 and 303-345)
\* ------------------------------------------------------------------------
RowWs2 == <<"04/01/2023", "Three", "Forks", "8000", "9000", "30", "5000", "Barrels">>

\* pieces of report text: tables with their header line, a Details block
\* closed by a blank line, an empty Details block, and a header line that
\* carries two labels
TextBlocks ==
    { HdrDate \o <<NL>> \o RowPipe \o <<NL>>,
      HdrDate \o <<NL>> \o RowWs \o <<NL>>,
      HdrDate \o <<NL>> \o RowWs2 \o <<NL>>,
      HdrDate \o <<NL>> \o RowBlank \o <<NL>>,
      HdrTreat \o <<NL>> \o RowTreat \o <<NL>>,
      HdrDetails \o <<NL>> \o RowProp \o <<NL, NL>>,
      HdrDetails \o <<NL>>,
      HdrTreat \o HdrDetails \o <<NL>> \o RowTreat \o <<NL>> }

RECURSIVE Concat(_)
Concat(bs) == IF bs = <<>> THEN <<>> ELSE bs[1] \o Concat(Tail(bs))

ScanTexts == {Concat(bs) : bs \in UNION {[1..n -> TextBlocks] : n \in 0..MaxBlocks}}

InitScan ==
    /\ pc = "scan"
    /\ docs = <<>>
    /\ total_pages = 0
    /\ page_number = 0
    /\ pages = <<>>
    /\ well_info_id = 0
    /\ stim_data = EmptyStim
    /\ stimA = EmptyStim
    /\ stimB = EmptyStim
    /\ ranB = FALSE
    /\ db = <<>>
    /\ cleaned = <<>>
    /\ well_data = <<>>
    /\ \E text \in ScanTexts, strategy \in {"doc1", "doc2"} :
         /\ full_text = text
         /\ scan = [strategy |-> strategy, lines |-> splitlines(text), i |-> 1,
                    data |-> EmptyStim, broke |-> FALSE]

\* lines 239-280 / 303-344: the body of the loop for line scan.i
ScanLine ==
    /\ pc = "scan"
    /\ ~scan.broke
    /\ scan.i <= Len(scan.lines)
    /\ LET d1 == DateStimulatedStep(scan.strategy, scan.lines, scan.i, scan.data)
           d2 == TypeTreatmentStep(scan.lines, scan.i, d1)
       IN  IF HasDetails(Strip(scan.lines[scan.i]))
           THEN scan' = [scan EXCEPT !.data = DetailsStep(scan.lines, scan.i, d2),
                                     !.broke = TRUE]
           ELSE scan' = [scan EXCEPT !.data = d2, !.i = scan.i + 1]
    /\ UNCHANGED <<pc, docs, acqVars, well_info_id, stimVars, db, cleaned, well_data>>

\* lines 281 / 345: return data
ScanReturn ==
    /\ pc = "scan"
    /\ scan.broke \/ scan.i > Len(scan.lines)
    /\ pc' = "scanned"
    /\ UNCHANGED <<docs, acqVars, well_info_id, stimVars, db, cleaned, parseVars>>

NextScan == ScanLine \/ ScanReturn

SpecScan == InitScan /\ [][NextScan]_vars

\* ------------------------------------------------------------------------
\* Both strategies on the same data line under a "Date Stimulated" anchor
\* (pdf_parse.py, lines 241-261 and 305-325)
\* ------------------------------------------------------------------------
\* data lines: date, formation (or a wide gap in its place), top, bottom,
\* stage count, volume and unit, with "|" or "I" or nothing after the stage
\* count or after the bottom depth
DataRows ==
    {<<date>> \o formation \o <<"8000", "9000">> \o sepBottom \o <<"30">> \o sepStages
        \o <<volume, "Barrels">> :
        date \in {"04/01/2023", "13/45/2023"},
        formation \in {<<"Bakken">>, <<"Three", "Forks">>, <<WIDE>>},
        sepBottom \in {<<>>, <<"|">>, <<"I">>},
        sepStages \in {<<>>, <<"|">>, <<"I">>},
        volume \in {"5000", "50000"}}

InitRow ==
    /\ pc = "row"
    /\ docs = <<>>
    /\ total_pages = 0
    /\ page_number = 0
    /\ pages = <<>>
    /\ well_info_id = 0
    /\ stim_data = EmptyStim
    /\ stimA = EmptyStim
    /\ stimB = EmptyStim
    /\ ranB = FALSE
    /\ db = <<>>
    /\ cleaned = <<>>
    /\ well_data = <<>>
    /\ scan = <<>>
    /\ \E row \in DataRows : full_text = HdrDate \o <<NL>> \o row

\* lines 481 and 485 on the same text
ApplyStrategies ==
    /\ pc = "row"
    /\ stimA' = parse_stimulation_data_doc1(full_text)
    /\ stimB' = parse_stimulation_data_doc2(full_text)
    /\ pc' = "row_parsed"
    /\ UNCHANGED <<docs, acqVars, well_info_id, stim_data, ranB, db, cleaned, parseVars>>

NextRow == ApplyStrategies

SpecRow == InitRow /\ [][NextRow]_vars

\* ------------------------------------------------------------------------
\* Properties
\* ------------------------------------------------------------------------
StimRowsOf(f) == {i \in 1..Len(db) : db[i].table = "stimulation_data" /\ db[i].file = f}
WellRowsOf(f) == {i \in 1..Len(db) : db[i].table = "well_info" /\ db[i].file = f}

\* C1: after lines 481-486, each of the seven required fields of the final
\* record is Strategy A's value when that is not None, and Strategy B's
\* value otherwise; Strategy B has run exactly when Strategy A left one of
\* the seven None.
C1_MergePrecedence ==
    pc = "emit" =>
        /\ ranB <=> AnyRequiredMissing(stimA)
        /\ \A k \in RequiredKeys :
              stim_data[k] = IF stimA[k] # None THEN stimA[k] ELSE stimB[k]

\* Strategy A filled some required fields and left others None, and
\* Strategy B found other values for both kinds
C1_Witness ==
    /\ pc = "emit"
    /\ ranB
    /\ \E k \in RequiredKeys :
          stimA[k] # None /\ stimB[k] # None /\ stimB[k] # stimA[k] /\ stim_data[k] = stimA[k]
    /\ \E k \in RequiredKeys :
          stimA[k] = None /\ stimB[k] # None /\ stim_data[k] = stimB[k]

\* C2: once a document is processed, a stimulation row has been handed to
\* persistence for it exactly when date_stimulated or stimulated_formation
\* of the merged record is not None.
C2_EmittedIffDateOrFormation ==
    (pc = "listdir" /\ cur >= 1 /\ docs[cur].finished) =>
        (StimRowsOf(cur) # {} <=>
            (stim_data["date_stimulated"] # None \/ stim_data["stimulated_formation"] # None))

\* C3: lines 483-486 leave every field outside the seven required ones as
\* Strategy A produced it, whatever Strategy B produced.
C3_OtherFieldsKept ==
    pc = "merged" => \A k \in OtherKeys : stim_data[k] = stimA[k]

\* Strategy B ran and found a value for a field outside the seven that
\* Strategy A left None
C3_Witness ==
    /\ pc = "merged"
    /\ ranB
    /\ \E k \in OtherKeys : stimA[k] = None /\ stimB[k] # None /\ stim_data[k] = None

\* C4: a page whose native text was read is rendered or sent to OCR exactly
\* when the trimmed length of that text is below min_chars_per_page.
C4_OcrIffBelowThreshold ==
    \A p \in 1..Len(pages) :
        ~pages[p].native_threw =>
            ((pages[p].rendered \/ pages[p].ocr)
                <=> CharLen(Strip(pages[p].native)) < min_chars_per_page)

\* a page of exactly min_chars_per_page characters went without OCR and a
\* shorter page of the same document went through OCR
C4_Witness ==
    \E p, q \in 1..Len(pages) :
        /\ ~pages[p].native_threw
        /\ CharLen(Strip(pages[p].native)) = min_chars_per_page
        /\ ~pages[p].rendered /\ ~pages[p].ocr
        /\ ~pages[q].native_threw
        /\ CharLen(Strip(pages[q].native)) < min_chars_per_page
        /\ pages[q].rendered /\ pages[q].ocr

\* the texts of pages 1..k, each followed by a line break
RECURSIVE PagesJoined(_)
PagesJoined(k) ==
    IF k = 0 THEN <<>> ELSE PagesJoined(k - 1) \o pages[k].text \o <<NL>>

AppendedCount == Cardinality({p \in 1..Len(pages) : pages[p].appended})

\* C5: at every step the accumulated text is the texts of pages 1..k in
\* ascending page order, each followed by a line break, for the k pages
\* appended so far, and those are the first k pages.
C5_TextInPageOrder ==
    /\ \A p \in 1..Len(pages) : pages[p].appended <=> p <= AppendedCount
    /\ full_text = PagesJoined(AppendedCount)

\* two pages with different text were appended, the first after OCR and the
\* second without
C5_Witness ==
    /\ Len(pages) >= 2
    /\ pages[1].appended /\ pages[2].appended
    /\ pages[1].ocr /\ ~pages[2].rendered
    /\ pages[1].text # <<>> /\ pages[2].text # <<>>
    /\ pages[1].text # pages[2].text
    /\ full_text = pages[1].text \o <<NL>> \o pages[2].text \o <<NL>>

\* C6: a page whose native extraction raised takes the OCR path and its
\* text is part of the document text, and the pages after it are read.
C6_NativeFailureTakesOcrPath ==
    /\ \A p \in 1..Len(pages) :
          pages[p].native_threw => (pages[p].ocr /\ pages[p].appended)
    /\ (pc = "well_info" /\ cur >= 1 /\ docs[cur].opened) => Len(pages) = total_pages

\* C7: a page whose rendering or OCR raised contributes the empty string
\* and the pages after it are read.
C7_OcrFailureNotFatal ==
    /\ \A p \in 1..Len(pages) :
          pages[p].ocr_failed => (pages[p].appended /\ pages[p].text = <<>>)
    /\ (pc = "well_info" /\ cur >= 1 /\ docs[cur].opened
            /\ \E p \in 1..Len(pages) : pages[p].ocr_failed)
        => /\ Len(pages) = total_pages
           /\ \A q \in 1..Len(pages) : pages[q].appended

\* C8: no row is handed to persistence for a document that could not be
\* opened.
C8_UnreadableDocumentAborts ==
    \A i \in 1..Len(db) : docs[db[i].file].opened

\* C9: per document, persistence receives one well row (none before the
\* insert, exactly one once the document is processed) and at most one
\* stimulation row; a stimulation row comes after the well row of its own
\* document and carries the identity of that row and of no other.
C9_OneWellThenOwnStimulation ==
    /\ \A f \in 1..Len(docs) :
          /\ Cardinality(WellRowsOf(f)) <= 1
          /\ Cardinality(StimRowsOf(f)) <= 1
          /\ docs[f].finished => Cardinality(WellRowsOf(f)) = 1
    /\ \A i \in 1..Len(db) :
          db[i].table = "stimulation_data" =>
              /\ \E j \in 1..(i - 1) :
                    /\ db[j].table = "well_info"
                    /\ db[j].file = db[i].file
                    /\ db[j].id = db[i].well_info_id
              /\ \A j \in 1..Len(db) :
                    (db[j].table = "well_info" /\ db[j].id = db[i].well_info_id)
                        => db[j].file = db[i].file

\* two documents were processed and each has its stimulation row
C9_Witness ==
    \E f, g \in 1..Len(docs) :
        /\ f # g
        /\ docs[f].finished /\ docs[g].finished
        /\ StimRowsOf(f) # {} /\ StimRowsOf(g) # {}

\* C10: clean_text applied to its own result returns that result.
C10_Idempotent ==
    (pc = "clean" /\ Len(cleaned.out) = 2) => cleaned.out[2] = cleaned.out[1]

\* C11: for every input string whose whitespace-free, uppercased form is
\* "NA", clean_text returns "N/A", with preserve_tags set or not; the rule
\* is consulted on the input as given, before any markup handling.
C11_NAProbeGivesSentinel ==
    (pc = "clean" /\ Len(cleaned.out) >= 1 /\ cleaned.arg.kind = "str"
        /\ Probe(cleaned.arg.chars) = <<"N", "A">>)
    => cleaned.out[1] = NA

\* a string with blanks and a lower-case letter whose probe is "NA" was
\* normalised with preserve_tags set
C11_Witness ==
    /\ pc = "clean"
    /\ Len(cleaned.out) >= 1
    /\ cleaned.arg.kind = "str"
    /\ cleaned.preserve_tags
    /\ Probe(cleaned.arg.chars) = <<"N", "A">>
    /\ \E i \in 1..Len(cleaned.arg.chars) : cleaned.arg.chars[i] = " "
    /\ \E i \in 1..Len(cleaned.arg.chars) : cleaned.arg.chars[i] = "a"
    /\ cleaned.out[1] = NA

\* the lines of the block that read "<type text>: <integer>": text, a
\* colon, a blank, a digit
TypeColonIntLines(ls) ==
    {i \in 1..Len(ls) :
        LET l == StripChars(ls[i])
        IN  \E k \in 2..(Len(l) - 2) : l[k] = ":" /\ l[k + 1] = " " /\ l[k + 2] \in DigitChars}

\* C12: split_proppant_details returns one entry per line that reads
\* "<type text>: <integer>", in the order of the lines, each with a type
\* that the line starts with and a value that is a natural number; other
\* lines contribute nothing, and None or "" gives the empty list.
C12_OneEntryPerMatchingLine ==
    pc = "proppant_done" =>
        IF cleaned.arg.kind = "none" \/ cleaned.arg.chars = <<>> THEN cleaned.out = <<>>
        ELSE LET ls == split_newline(cleaned.arg.chars)
                 hits == TypeColonIntLines(ls)
                 nth == SelectSeq([i \in 1..Len(ls) |-> i], LAMBDA i : i \in hits)
             IN  /\ Len(cleaned.out) = Cardinality(hits)
                 /\ \A j \in 1..Len(cleaned.out) :
                       LET l == StripChars(ls[nth[j]])
                           e == cleaned.out[j]
                       IN  /\ e.value \in Nat
                           /\ e.type # <<>>
                           /\ SubSeq(l, 1, Len(e.type)) = e.type
                           /\ \E k \in (Len(e.type) + 1)..(Len(l) - 2) :
                                 /\ l[k] = ":" /\ l[k + 1] = " "
                                 /\ int(DigitRun(l, k + 2)) = e.value

\* a block of three lines, the middle one not of the form, gave two
\* entries with different values in the order of their lines
C12_Witness ==
    /\ pc = "proppant_done"
    /\ cleaned.arg.kind = "str"
    /\ LET ls == split_newline(cleaned.arg.chars)
       IN  /\ Len(ls) = 3
           /\ TypeColonIntLines(ls) = {1, 3}
           /\ Len(cleaned.out) = 2
           /\ cleaned.out[1].value = 50
           /\ cleaned.out[2].value = 7

\* an entry of the form: number, optional suffix, unit, "of", words, "in",
\* month, year
HasBlockForm(e) ==
    /\ Len(e) >= 7
    /\ IsMagnitude(e[1])
    /\ e[Len(e) - 2] = "in"
    /\ \E u \in 2..3 : e[u] \in {"MCF", "Barrels"} /\ e[u + 1] = "of"

\* C13: process_block_stats never raises on an entry; when it returns,
\* every entry was either stored or warned about, the entries of the form
\* whose number converts are the stored ones, in order, and those whose
\* number does not convert are among the warned ones.
C13_NoEntryIsFatal ==
    /\ pc # "block_raised"
    /\ pc = "block_done" =>
          /\ Len(cleaned.handled) + Len(cleaned.warnings) = Len(cleaned.entries)
          /\ Len(db) = Len(cleaned.handled)
          /\ \A i \in 1..Len(cleaned.entries) :
                (HasBlockForm(cleaned.entries[i])
                    /\ ~float_ok(MagnitudeChars(cleaned.entries[i][1])))
                => \E j \in 1..Len(cleaned.warnings) : cleaned.warnings[j] = i

\* C14: every latitude parse_well_info returns is None or within
\* [-90, 90] degrees, every longitude None or within [-180, 180] degrees.
C14_CoordinatesInRange ==
    pc = "well_info_parsed" =>
        /\ well_data.latitude.kind = "float" =>
              (well_data.latitude.ticks >= 0 - 90 * 36000
                  /\ well_data.latitude.ticks <= 90 * 36000)
        /\ well_data.longitude.kind = "float" =>
              (well_data.longitude.ticks >= 0 - 180 * 36000
                  /\ well_data.longitude.ticks <= 180 * 36000)

\* the first line containing "Details", or 0
FirstDetails(lines) ==
    LET D == {i \in 1..Len(lines) : \E t \in 1..Len(lines[i]) : lines[i][t] = "Details"}
    IN  IF D = {} THEN 0 ELSE CHOOSE i \in D : \A j \in D : i <= j

\* a line that ends a Details block: blank, or starting with an anchor
EndsBlock(l) ==
    \/ \A t \in 1..Len(l) : IsSpace(l[t])
    \/ LET w == SelectSeq(l, LAMBDA t : ~IsSpace(t))
       IN  Len(w) >= 2 /\ <<w[1], w[2]>> \in {<<"Date", "Stimulated">>, <<"Type", "Treatment">>}

\* the last line of the block that follows line d (d itself if it is empty)
BlockEnd(lines, d) ==
    CHOOSE e \in d..Len(lines) :
        /\ \A j \in (d + 1)..e : ~EndsBlock(lines[j])
        /\ e < Len(lines) => EndsBlock(lines[e + 1])

HasAnchor(l) == HasPair(l, "Date", "Stimulated") \/ HasPair(l, "Type", "Treatment")

C16_FieldsSetAtMostOnce ==
    [][\A k \in StimKeys :
          (pc = "scan" /\ pc' = "scan" /\ scan.data[k] # None)
              => scan'.data[k] = scan.data[k]]_vars

\* C17: a data line that Strategy A accepts is accepted by Strategy B with
\* the same seven values.
C17_StrategyBAcceptsWhatAAccepts ==
    (pc = "row_parsed" /\ stimA["top_depth"] # None) =>
        \A k \in RequiredKeys : stimB[k] = stimA[k]
====
